---- MODULE Spec2Model ----
(***************************************************************************)
(* BackpropModule (pyperch/neural/backprop_nn.py): a feed-forward network  *)
(* assembled from nn.Linear units, with activation and dropout after every *)
(* hidden unit and an output activation after the last unit.               *)
(*                                                                         *)
(* Tensors are sequences of rows of integers.  A linear unit is the affine *)
(* map x |-> W x + b with integer parameters.  The dropout rate is kept as *)
(* a percentage (50 for p = 0.5) so that the rescaling 1/(1-p) stays an    *)
(* integer.  Softmax(dim=-1) is represented by the row shifted so that its *)
(* maximum is 0: two rows have the same softmax exactly when they differ   *)
(* by a constant, so the shifted row identifies the softmax value.         *)
(***************************************************************************)
EXTENDS Integers, Sequences, FiniteSets

VARIABLES batch, ctor, self, fwd

vars == <<batch, ctor, self, fwd>>

(* ---------------- bounds of the model ---------------- *)

MaxDim == 2

MaxLayers == 2

MaxBatch == 2

(* ---------------- defaults of the constructor's signature ---------------- *)

DefaultHiddenUnits == 10

DefaultHiddenLayers == 1

DefaultDropoutPercent == 0

(* ---------------- input domains ---------------- *)

Dims == 1..MaxDim

RECURSIVE SeqsOfLen(_, _)
SeqsOfLen(S, n) ==
    IF n = 0 THEN {<<>>}
    ELSE {Append(s, x) : s \in SeqsOfLen(S, n - 1), x \in S}

Lists == UNION {SeqsOfLen(Dims, n) : n \in 0..MaxLayers}

IntUnits(n) == [kind |-> "int", val |-> n]

ListUnits(l) == [kind |-> "list", val |-> l]

HiddenUnitsArgs ==
    {IntUnits(n) : n \in Dims \cup {DefaultHiddenUnits}} \cup {ListUnits(l) : l \in Lists}

HiddenLayersArgs == (0..MaxLayers) \cup {DefaultHiddenLayers}

DropoutPercents == {DefaultDropoutPercent, 50}

Activations == {"ReLU", "Identity"}

OutputActivations == {"Softmax", "Identity"}

ParamDraws == {[w |-> 1, b |-> 0], [w |-> 0 - 1, b |-> 1]}

MaskDraws == {"even", "odd"}

CtorArgs ==
    [input_dim : Dims, output_dim : Dims, hidden_units : HiddenUnitsArgs,
     hidden_layers : HiddenLayersArgs, dropout_percent : DropoutPercents,
     activation : Activations, output_activation : OutputActivations]

NoSelf == [layers |-> <<>>, constructed |-> FALSE]

NoFwd == [called |-> FALSE]

(* ---------------- tensors ---------------- *)

Batch(X) == Len(X)

Width(X) == Len(X[1])

Shape(X) == <<Batch(X), Width(X)>>

RECURSIVE Dot(_, _, _)
Dot(x, w, n) == IF n = 0 THEN 0 ELSE Dot(x, w, n - 1) + x[n] * w[n]

RECURSIVE RowMax(_, _)
RowMax(x, n) ==
    IF n = 1 THEN x[1]
    ELSE LET m == RowMax(x, n - 1) IN IF x[n] > m THEN x[n] ELSE m

(* ---------------- nn.Linear ---------------- *)

InitLinear(in, out, draw) ==
    [in_features  |-> in,
     out_features |-> out,
     weight |-> [o \in 1..out |->
                   [i \in 1..in |-> IF (o + i) % 2 = 0 THEN draw.w ELSE 0 - draw.w]],
     bias   |-> [o \in 1..out |-> draw.b]]

LinearFits(unit, X) == Width(X) = unit.in_features

Linear(unit, X) ==
    [r \in 1..Batch(X) |->
       [o \in 1..unit.out_features |->
          Dot(X[r], unit.weight[o], unit.in_features) + unit.bias[o]]]

(* ---------------- activations and dropout ---------------- *)

Activation(name, X) ==
    CASE name = "ReLU" ->
           [r \in 1..Batch(X) |->
              [c \in 1..Width(X) |-> IF X[r][c] > 0 THEN X[r][c] ELSE 0]]
      [] name = "Softmax" ->
           [r \in 1..Batch(X) |->
              [c \in 1..Width(X) |-> X[r][c] - RowMax(X[r], Width(X))]]
      [] OTHER -> X

Kept(mask, r, c) ==
    CASE mask = "keep" -> TRUE
      [] mask = "even" -> (r + c) % 2 = 0
      [] OTHER -> (r + c) % 2 = 1

(* Dropout that masks and rescales whatever the mode. *)
DropoutAlways(p, training, X, mask) ==
    IF p = 0 THEN X
    ELSE [r \in 1..Batch(X) |->
            [c \in 1..Width(X) |->
               IF Kept(mask, r, c) THEN (X[r][c] * 100) \div (100 - p) ELSE 0]]

Dropout(p, training, X, mask) ==
    IF ~training \/ p = 0 THEN X
    ELSE [r \in 1..Batch(X) |->
            [c \in 1..Width(X) |->
               IF Kept(mask, r, c) THEN (X[r][c] * 100) \div (100 - p) ELSE 0]]

(* ---------------- BackpropModule.__init__ ---------------- *)

IsList(hidden_units) == hidden_units.kind = "list"

(* The check with < in place of != : a list that is too long passes. *)
ConfigMismatchShorter(hidden_units, hidden_layers) ==
    ~IsList(hidden_units) \/ Len(hidden_units.val) < hidden_layers

ConfigMismatch(hidden_units, hidden_layers) ==
    ~IsList(hidden_units) \/ Len(hidden_units.val) # hidden_layers

(* The fields assigned before the check of hidden_units. *)
Fields(a) ==
    [constructed |-> TRUE,
     input_dim |-> a.input_dim,
     output_dim |-> a.output_dim,
     hidden_units |-> a.hidden_units,
     hidden_layers |-> a.hidden_layers,
     dropout |-> a.dropout_percent,
     activation |-> a.activation,
     output_activation |-> a.output_activation,
     training |-> TRUE,
     layers |-> <<>>]

(* The input unit sized from hidden_units[0] on both sides. *)
InputLayerHiddenWidth(s, draw) ==
    <<InitLinear(s.hidden_units.val[1], s.hidden_units.val[1], draw)>>

InputLayer(s, draw) ==
    <<InitLinear(s.input_dim, s.hidden_units.val[1], draw)>>

(* The intermediate units sized from hidden_units[layer] on both sides. *)
HiddenLayersSameWidth(s, draw) ==
    [k \in 1..(s.hidden_layers - 1) |->
       InitLinear(s.hidden_units.val[k + 1], s.hidden_units.val[k + 1], draw)]

HiddenLayers(s, draw) ==
    [k \in 1..(s.hidden_layers - 1) |->
       InitLinear(s.hidden_units.val[k], s.hidden_units.val[k + 1], draw)]

(* The output unit sized from hidden_units[-1] on both sides. *)
OutputLayerHiddenWidth(s, draw) ==
    <<InitLinear(s.hidden_units.val[Len(s.hidden_units.val)],
                 s.hidden_units.val[Len(s.hidden_units.val)], draw)>>

OutputLayer(s, draw) ==
    <<InitLinear(s.hidden_units.val[Len(s.hidden_units.val)], s.output_dim, draw)>>

(* The construction without its loop over the intermediate units. *)
BuildLayersNoLoop(s, draw) ==
    InputLayer(s, draw) \o OutputLayer(s, draw)

BuildLayers(s, draw) ==
    InputLayer(s, draw) \o HiddenLayers(s, draw) \o OutputLayer(s, draw)

Construct ==
    /\ ctor = "none"
    /\ \E a \in CtorArgs, draw \in ParamDraws :
         IF ConfigMismatch(a.hidden_units, a.hidden_layers)
         THEN /\ ctor' = "ValueError"
              /\ self' = Fields(a)
         ELSE IF Len(a.hidden_units.val) = 0
         THEN /\ ctor' = "IndexError"
              /\ self' = Fields(a)
         ELSE /\ ctor' = "ok"
              /\ self' = [Fields(a) EXCEPT !.layers = BuildLayers(Fields(a), draw)]
    /\ UNCHANGED <<batch, fwd>>

(* ---------------- nn.Module.train / nn.Module.eval ---------------- *)

Train ==
    /\ ctor = "ok"
    /\ ~self.training
    /\ self' = [self EXCEPT !.training = TRUE]
    /\ UNCHANGED <<batch, ctor, fwd>>

Eval ==
    /\ ctor = "ok"
    /\ self.training
    /\ self' = [self EXCEPT !.training = FALSE]
    /\ UNCHANGED <<batch, ctor, fwd>>

(* ---------------- BackpropModule.forward ---------------- *)

Batches ==
    {[r \in 1..B |-> [c \in 1..w |-> r + c - 1]] : B \in 1..MaxBatch, w \in Dims}

Stage(op, unit, X) == [op |-> op, unit |-> unit, shape |-> Shape(X)]

Enter(X) == [X |-> X, trace |-> <<>>, error |-> "none", errorAt |-> 0 - 1]

(* self.layers[i](X): the index and the tensor library's shape check. *)
LayerError(s, i, X) ==
    IF i + 1 > Len(s.layers) THEN "IndexError"
    ELSE IF ~LinearFits(s.layers[i + 1], X) THEN "RuntimeError"
    ELSE "none"

(* The hidden stage with dropout applied before the activation. *)
HiddenStageDropoutFirst(s, i, st, mask) ==
    IF st.error # "none" THEN st
    ELSE IF LayerError(s, i, st.X) # "none"
    THEN [st EXCEPT !.error = LayerError(s, i, st.X), !.errorAt = i]
    ELSE LET lin == Linear(s.layers[i + 1], st.X)
             drp == Dropout(s.dropout, s.training, lin, mask)
             act == Activation(s.activation, drp)
         IN [st EXCEPT
               !.X = act,
               !.trace = @ \o <<Stage("linear", i, lin), Stage("dropout", i, drp),
                                 Stage("activation", i, act)>>]

(* X = self.activation(self.layers[i](X)); X = self.dropout(X) *)
HiddenStage(s, i, st, mask) ==
    IF st.error # "none" THEN st
    ELSE IF LayerError(s, i, st.X) # "none"
    THEN [st EXCEPT !.error = LayerError(s, i, st.X), !.errorAt = i]
    ELSE LET lin == Linear(s.layers[i + 1], st.X)
             act == Activation(s.activation, lin)
             drp == Dropout(s.dropout, s.training, act, mask)
         IN [st EXCEPT
               !.X = drp,
               !.trace = @ \o <<Stage("linear", i, lin), Stage("activation", i, act),
                                 Stage("dropout", i, drp)>>]

RECURSIVE HiddenLoop(_, _, _, _)
HiddenLoop(s, i, st, masks) ==
    IF i >= s.hidden_layers THEN st
    ELSE HiddenLoop(s, i + 1, HiddenStage(s, i, st, masks[i + 1]), masks)

(* X = self.output_activation(self.layers[self.hidden_layers](X)) *)
OutputStage(s, st) ==
    IF st.error # "none" THEN st
    ELSE IF LayerError(s, s.hidden_layers, st.X) # "none"
    THEN [st EXCEPT !.error = LayerError(s, s.hidden_layers, st.X),
                    !.errorAt = s.hidden_layers]
    ELSE LET lin == Linear(s.layers[s.hidden_layers + 1], st.X)
             act == Activation(s.output_activation, lin)
         IN [st EXCEPT
               !.X = act,
               !.trace = @ \o <<Stage("linear", s.hidden_layers, lin),
                                 Stage("output_activation", s.hidden_layers, act)>>]

forward(s, X, masks) ==
    OutputStage(s, HiddenLoop(s, 1, HiddenStage(s, 0, Enter(X), masks[1]), masks))

(* What the caller observes of one call of forward. *)
Outcome(s, st) ==
    [called |-> TRUE,
     training |-> s.training,
     error |-> st.error,
     errorAt |-> st.errorAt,
     trace |-> st.trace,
     out |-> IF st.error = "none" THEN st.X ELSE <<>>]

(* The Bernoulli masks a pass can draw, one for each call of dropout: the   *)
(* library draws none when the module is not training or p = 0.            *)
MaskChoices(s) ==
    IF s.training /\ s.dropout > 0
    THEN SeqsOfLen(MaskDraws, s.hidden_layers)
    ELSE SeqsOfLen({"keep"}, s.hidden_layers)

(* A forward pass that consumes the units it applies. *)
ForwardConsumes ==
    /\ ctor = "ok"
    /\ \E masks \in MaskChoices(self) :
         \E st \in {forward(self, batch, masks)} : fwd' = Outcome(self, st)
    /\ self' = [self EXCEPT !.layers = SubSeq(@, 1, Len(@) - 1)]
    /\ UNCHANGED <<batch, ctor>>

Forward ==
    /\ ctor = "ok"
    /\ \E masks \in MaskChoices(self) :
         \E st \in {forward(self, batch, masks)} : fwd' = Outcome(self, st)
    /\ UNCHANGED <<batch, ctor, self>>

Init ==
    /\ batch \in Batches
    /\ ctor = "none"
    /\ self = NoSelf
    /\ fwd = NoFwd

Next == Construct \/ Train \/ Eval \/ Forward

Spec == Init /\ [][Next]_vars

(* ======================= properties ======================= *)

Constructed == ctor = "ok"

UnitDims(unit) ==
    <<unit.in_features, unit.out_features, Len(unit.weight[1]), Len(unit.weight),
      Len(unit.bias)>>

Maps(in, out) == <<in, out, in, out, out>>

Broadcast(n, h) == [k \in 1..h |-> n]

(* C1: whenever the constructor was called with hidden_units a list whose   *)
(* length differs from hidden_layers, it raised ValueError, whatever the    *)
(* other arguments.                                                         *)
C1_MismatchedListRaisesValueError ==
    (/\ ctor # "none"
     /\ IsList(self.hidden_units)
     /\ Len(self.hidden_units.val) # self.hidden_layers)
    => ctor = "ValueError"

C1_Witness ==
    /\ ctor = "ValueError"
    /\ self.hidden_units = ListUnits(<<2, 2>>)
    /\ self.hidden_layers = 1

(* C2: a constructed network with hidden_layers >= 1 holds exactly          *)
(* hidden_layers + 1 linear units: the input unit first, the output unit    *)
(* last and hidden_layers - 1 units between them, from construction on.     *)
C2_LayerCount ==
    (Constructed /\ self.hidden_layers >= 1)
    => /\ Len(self.layers) = self.hidden_layers + 1
       /\ self.layers[1].in_features = self.input_dim
       /\ self.layers[Len(self.layers)].out_features = self.output_dim
       /\ Cardinality(2..(Len(self.layers) - 1)) = self.hidden_layers - 1

C2_Witness ==
    /\ Constructed
    /\ self.hidden_layers = 2
    /\ Len(self.layers) = 3

(* C3: the units of a constructed network form a chain: unit 0 maps         *)
(* input_dim to hidden_units[0], unit k maps hidden_units[k-1] to           *)
(* hidden_units[k], the last unit maps hidden_units[-1] to output_dim, and  *)
(* every unit's input width is the output width of the unit before it.      *)
C3_Chain ==
    Constructed
    => LET hu == self.hidden_units.val
           L == self.layers
       IN /\ UnitDims(L[1]) = Maps(self.input_dim, hu[1])
          /\ \A k \in 1..(self.hidden_layers - 1) :
                UnitDims(L[k + 1]) = Maps(hu[k], hu[k + 1])
          /\ UnitDims(L[Len(L)]) = Maps(hu[Len(hu)], self.output_dim)
          /\ \A i \in 2..Len(L) : L[i].in_features = L[i - 1].out_features

C3_Witness ==
    /\ Constructed
    /\ self.input_dim = 2
    /\ self.hidden_units = ListUnits(<<1, 2>>)
    /\ self.output_dim = 1
    /\ Len(self.layers) = 3

(* C5: a construction with hidden_units a single integer n and              *)
(* hidden_layers = h >= 1 succeeds and builds the units of                  *)
(* hidden_units = [n, ..., n] of length h.                                  *)
C5_ScalarIsBroadcast ==
    (/\ ctor # "none"
     /\ ~IsList(self.hidden_units)
     /\ self.hidden_layers >= 1)
    => /\ Constructed
       /\ \E draw \in ParamDraws :
             self.layers =
               BuildLayers([self EXCEPT !.hidden_units =
                              ListUnits(Broadcast(self.hidden_units.val,
                                                  self.hidden_layers))], draw)

(* C9: every construction with hidden_units a list of length hidden_layers, *)
(* hidden_layers = 0 with the empty list included, succeeds and allocates   *)
(* hidden_layers + 1 units.                                                 *)
C9_OnlyMismatchRaises ==
    (/\ ctor # "none"
     /\ IsList(self.hidden_units)
     /\ Len(self.hidden_units.val) = self.hidden_layers)
    => /\ Constructed
       /\ Len(self.layers) = self.hidden_layers + 1

Returned == fwd.called /\ fwd.error = "none"

(* The composition of the linear units and the activations, without dropout. *)
RECURSIVE Compose(_, _, _)
Compose(s, i, X) ==
    IF i = s.hidden_layers
    THEN Activation(s.output_activation, Linear(s.layers[i + 1], X))
    ELSE Compose(s, i + 1, Activation(s.activation, Linear(s.layers[i + 1], X)))

Ops(trace) == [k \in 1..Len(trace) |-> <<trace[k].op, trace[k].unit>>]

Count(trace, op) == Cardinality({k \in 1..Len(trace) : trace[k].op = op})

NonZero(X) == \E r \in 1..Batch(X) : \E c \in 1..Width(X) : X[r][c] # 0

(* C4: forward on a batch of shape (B, input_dim) returns an output of      *)
(* shape (B, output_dim); the widths along the pass are hidden_units[0],    *)
(* ..., hidden_units[-1], output_dim, and activation and dropout keep the   *)
(* shape of what the linear unit before them produced.                      *)
C4_ForwardShape ==
    (fwd.called /\ Width(batch) = self.input_dim)
    => LET hu == self.hidden_units.val
           h == self.hidden_layers
           B == Batch(batch)
       IN /\ fwd.error = "none"
          /\ Shape(fwd.out) = <<B, self.output_dim>>
          /\ Len(fwd.trace) = 3 * h + 2
          /\ \A i \in 0..(h - 1) : \A j \in 1..3 :
                fwd.trace[3 * i + j].shape = <<B, hu[i + 1]>>
          /\ \A j \in 1..2 : fwd.trace[3 * h + j].shape = <<B, self.output_dim>>

C4_Witness ==
    /\ Returned
    /\ Shape(batch) = <<2, 2>>
    /\ self.hidden_units = ListUnits(<<1>>)
    /\ self.dropout = 0
    /\ Shape(fwd.out) = <<2, 1>>

(* C6: in evaluation mode forward returns the composition of the linear     *)
(* units and the activations with no masking, whatever the dropout rate,    *)
(* and a second pass in evaluation mode over the same network and input     *)
(* returns the output of the first.                                         *)
C6_EvalDeterministic ==
    /\ [](Returned /\ ~fwd.training => fwd.out = Compose(self, 0, batch))
    /\ [][(/\ fwd.called /\ ~fwd.training
            /\ fwd'.called /\ ~fwd'.training
            /\ self' = self)
           => fwd'.out = fwd.out]_vars

C6_Witness ==
    /\ Returned
    /\ ~fwd.training
    /\ self.dropout = 50
    /\ NonZero(fwd.out)
    /\ fwd.out = Compose(self, 0, batch)

(* C7: forward on a batch whose last dimension differs from input_dim fails *)
(* with the tensor library's shape error at linear unit 0, before any stage *)
(* was applied, returns no output, and leaves the network as it was.        *)
C7_WrongWidthFails ==
    /\ []((fwd.called /\ Width(batch) # self.input_dim)
           => /\ fwd.error = "RuntimeError"
              /\ fwd.errorAt = 0
              /\ fwd.trace = <<>>
              /\ fwd.out = <<>>)
    /\ [][(fwd'.called /\ fwd' # fwd /\ fwd'.error # "none") => self' = self]_vars

C7_Witness ==
    /\ fwd.called
    /\ Width(batch) # self.input_dim
    /\ Width(batch) = self.hidden_units.val[1]
    /\ fwd.error = "RuntimeError"

(* C8: a forward pass that returns has applied, in this order, for each i   *)
(* from 0 to hidden_layers - 1: linear unit i, the activation, dropout; and *)
(* then linear unit hidden_layers and the output activation.  Every unit is *)
(* applied once, activation and dropout hidden_layers times each, and the   *)
(* output activation once and last, with no dropout after the final unit.   *)
C8_StageOrder ==
    Returned
    => LET h == self.hidden_layers
           t == fwd.trace
       IN /\ Len(t) = 3 * h + 2
          /\ \A i \in 0..(h - 1) :
                /\ Ops(t)[3 * i + 1] = <<"linear", i>>
                /\ Ops(t)[3 * i + 2] = <<"activation", i>>
                /\ Ops(t)[3 * i + 3] = <<"dropout", i>>
          /\ Ops(t)[3 * h + 1] = <<"linear", h>>
          /\ Ops(t)[3 * h + 2] = <<"output_activation", h>>
          /\ \A u \in 0..(Len(self.layers) - 1) :
                Cardinality({k \in 1..Len(t) : Ops(t)[k] = <<"linear", u>>}) = 1
          /\ Count(t, "activation") = h
          /\ Count(t, "dropout") = h
          /\ Count(t, "output_activation") = 1

C8_Witness ==
    /\ Returned
    /\ self.hidden_layers = 2
    /\ Len(fwd.trace) = 8
    /\ fwd.trace[8].op = "output_activation"

(* C10: no step taken once the network is constructed changes its units,    *)
(* their dimensions and parameters, hidden_layers, hidden_units, input_dim, *)
(* output_dim or the dropout rate; forward changes nothing of the network.  *)
C10_ForwardKeepsStructure ==
    [][Constructed
       => /\ [self' EXCEPT !.training = TRUE] = [self EXCEPT !.training = TRUE]
          /\ (fwd' # fwd => self' = self)]_vars

C10_Witness ==
    /\ Returned
    /\ fwd.training
    /\ self.dropout = 50
    /\ self.hidden_layers = 2
    /\ Len(self.layers) = 3

====
